---- MODULE Spec2Model ----
(***************************************************************************)
(* Model of flask_appbuilder/models/generic/__init__.py: the generic       *)
(* in-memory model classes (MetaGenericModel, GenericModel) and the query  *)
(* session (GenericSession).  The module is Python 2 code (__metaclass__,  *)
(* dict.keys() used as a list); values carry their runtime type so that    *)
(* the coercions int(x), str(x), type(v)(x) and the exceptions they raise  *)
(* are computed, not assumed.                                              *)
(***************************************************************************)
EXTENDS Integers, Sequences, FiniteSets, TLC

(***************************************************************************)
(* Bounds of the model.                                                    *)
(***************************************************************************)
MaxStore == 2
MaxFilters == 2
MaxPage == 1
MaxScan == 2

(***************************************************************************)
(* Python values: an int, a str (sequence of characters) or the            *)
(* GenericColumn object a class attribute holds when the instance never    *)
(* set that field.                                                         *)
(***************************************************************************)
IntV(n) == [t |-> "int", n |-> n, s |-> <<>>]
StrV(s) == [t |-> "str", n |-> 0, s |-> s]
ColV == [t |-> "GenericColumn", n |-> 0, s |-> <<>>]
ClsV(c) == [t |-> "class", n |-> 0, s |-> <<c>>]
NoneV == [t |-> "None", n |-> 0, s |-> <<>>]

Ok(v) == [exc |-> "", val |-> v]
Raise(e) == [exc |-> e, val |-> NoneV]

Digits == <<"0", "1", "2", "3", "4", "5", "6", "7", "8", "9">>
IsDigit(c) == \E i \in 1..10 : Digits[i] = c
DigitVal(c) == (CHOOSE i \in 1..10 : Digits[i] = c) - 1

\* ord(c) for the characters the model uses
Ord(c) == IF IsDigit(c) THEN 48 + DigitVal(c)
          ELSE CASE c = "a" -> 97 [] c = "b" -> 98 [] c = "x" -> 120 [] OTHER -> 0

RECURSIVE ParseInt(_)
ParseInt(s) == IF s = <<>> THEN 0
               ELSE 10 * ParseInt(SubSeq(s, 1, Len(s) - 1)) + DigitVal(s[Len(s)])

RECURSIVE Render(_)
Render(n) == IF n < 0 THEN <<"-">> \o Render(0 - n)
             ELSE IF n < 10 THEN <<Digits[n + 1]>>
             ELSE Render(n \div 10) \o <<Digits[(n % 10) + 1]>>

\* int(v)
int(v) == CASE v.t = "int" -> Ok(v)
            [] v.t = "str" -> IF v.s # <<>> /\ \A i \in 1..Len(v.s) : IsDigit(v.s[i])
                              THEN Ok(IntV(ParseInt(v.s)))
                              ELSE Raise("ValueError")
            [] OTHER -> Raise("TypeError")

\* str(v)
str(v) == CASE v.t = "int" -> Ok(StrV(Render(v.n)))
            [] v.t = "str" -> Ok(v)
            [] OTHER -> Ok(StrV(<<"x">>))

\* GenericColumn.__init__ called as GenericColumn(v): a new column object,
\* which compares unequal (by identity) to every existing object
NewColV == [t |-> "GenericColumn", n |-> 1, s |-> <<>>]

\* t(v) for a runtime type t
Call(t, v) == CASE t = "int" -> int(v)
                [] t = "str" -> str(v)
                [] t = "GenericColumn" -> Ok(NewColV)
                [] OTHER -> Raise("TypeError")

\* a == b on Python values
PyEq(a, b) == a = b

\* lexicographic s < u on character sequences
RECURSIVE SeqLess(_, _)
SeqLess(s, u) == IF u = <<>> THEN FALSE
                 ELSE IF s = <<>> THEN TRUE
                 ELSE IF Ord(s[1]) # Ord(u[1]) THEN Ord(s[1]) < Ord(u[1])
                 ELSE SeqLess(Tail(s), Tail(u))

\* CPython 2 default ordering across types: numbers first, then by type name
TypeRank(v) == CASE v.t = "int" -> 0 [] v.t = "GenericColumn" -> 1 [] OTHER -> 2

\* a < b on Python values
PyLess(a, b) == IF a.t = "int" /\ b.t = "int" THEN a.n < b.n
                ELSE IF a.t = "str" /\ b.t = "str" THEN SeqLess(a.s, b.s)
                ELSE IF a.t = b.t THEN a.n < b.n
                ELSE TypeRank(a) < TypeRank(b)

\* value in container
Contains(container, value) ==
    IF container.t = "str"
    THEN IF value.t = "str"
         THEN Ok(\E i \in 0..Len(container.s) :
                     /\ i + Len(value.s) <= Len(container.s)
                     /\ SubSeq(container.s, i + 1, i + Len(value.s)) = value.s)
         ELSE Raise("TypeError")
    ELSE Raise("TypeError")

(***************************************************************************)
(* The declared model classes.                                             *)
(*   class M(GenericModel): id = GenericColumn(int, primary_key=True)      *)
(*                          name = GenericColumn(str)                      *)
(*   class S(GenericModel): code = GenericColumn(int)                      *)
(*   class N(GenericModel): a = GenericColumn(int)                         *)
(*                          b = GenericColumn(str)                         *)
(*   class D(GenericModel): x = GenericColumn(int)                         *)
(*                          y = GenericColumn(int, primary_key=True)       *)
(*                          z = GenericColumn(str, primary_key=True)       *)
(* and the module's own PSModel.                                           *)
(***************************************************************************)
Classes == {"M", "S", "N"}

\* the classes that exist once the module and the model classes are loaded
Loaded == Classes \cup {"PSModel"}

\* the classes whose instances a session is given to hold
StoreClasses == {"M", "PSModel"}

\* the classes whose declaration alone is looked at
DeclaredClasses == Classes \cup {"D"}

\* the GenericColumn attributes of the class body, in the order they are written
Decl(c) == CASE c = "M" -> << [name |-> "id", col_type |-> "int", primary_key |-> TRUE],
                              [name |-> "name", col_type |-> "str", primary_key |-> FALSE] >>
             [] c = "S" -> << [name |-> "code", col_type |-> "int", primary_key |-> FALSE] >>
             [] c = "N" -> << [name |-> "a", col_type |-> "int", primary_key |-> FALSE],
                              [name |-> "b", col_type |-> "str", primary_key |-> FALSE] >>
             [] c = "PSModel" ->
                           << [name |-> "UID", col_type |-> "str", primary_key |-> FALSE],
                              [name |-> "PID", col_type |-> "int", primary_key |-> TRUE],
                              [name |-> "PPID", col_type |-> "int", primary_key |-> FALSE],
                              [name |-> "C", col_type |-> "int", primary_key |-> FALSE],
                              [name |-> "STIME", col_type |-> "str", primary_key |-> FALSE],
                              [name |-> "TTY", col_type |-> "str", primary_key |-> FALSE],
                              [name |-> "TIME", col_type |-> "str", primary_key |-> FALSE],
                              [name |-> "CMD", col_type |-> "str", primary_key |-> FALSE] >>
             [] c = "D" -> << [name |-> "x", col_type |-> "int", primary_key |-> FALSE],
                              [name |-> "y", col_type |-> "int", primary_key |-> TRUE],
                              [name |-> "z", col_type |-> "str", primary_key |-> TRUE] >>

\* the column names in the order they are written
DeclOrder(c) == [i \in 1..Len(Decl(c)) |-> Decl(c)[i].name]
ColumnSet(c) == {Decl(c)[i].name : i \in 1..Len(Decl(c))}

\* GenericModel.get_col_type / item.properties[col].col_type
_col_defs(c, col) == Decl(c)[CHOOSE i \in 1..Len(Decl(c)) : Decl(c)[i].name = col]
get_col_type(c, col) == _col_defs(c, col).col_type

VARIABLES
    columns,         \* class attribute columns: _col_defs.keys() of every declared class
    pk,              \* class attribute pk, for the classes whose __dict__ has one
    primary_key,     \* _col_defs[col].primary_key of every class
    store,           \* GenericSession.store: dict class name -> list of models
    query_class,     \* GenericSession.query_class
    filters_cmd,     \* GenericSession._filters_cmd
    order_by_cmd,    \* GenericSession._order_by_cmd: <<>> is None, else the words of the command
    offset,          \* GenericSession._offset
    limit,           \* GenericSession._limit
    ret              \* what the last call returned or raised

vars == <<columns, pk, primary_key, store, query_class, filters_cmd, order_by_cmd, offset, limit, ret>>

schemaVars == <<columns, pk, primary_key>>
builderVars == <<query_class, filters_cmd, order_by_cmd, offset, limit>>

(***************************************************************************)
(* Model instances: [cls |-> class name, vals |-> the instance __dict__].  *)
(***************************************************************************)

\* getattr(item, col_name): the instance attribute, else the class attribute
getattr(item, col_name) ==
    IF col_name \in DOMAIN item.vals THEN Ok(item.vals[col_name])
    ELSE IF col_name \in ColumnSet(item.cls) THEN Ok(ColV)
    ELSE Raise("AttributeError")

\* self.pk read on an instance: only the class __dict__ is searched, the
\* metaclass attribute pk = None is not visible from instances
InstancePk(pkOf, c) == IF c \in DOMAIN pkOf THEN Ok(StrV(<<pkOf[c]>>)) ELSE Raise("AttributeError")

\* MetaGenericModel.__new__: pk is set on the class only when a column is flagged
MetaPk == LET flagged(c) == {i \in 1..Len(Decl(c)) : Decl(c)[i].primary_key}
              has == {c \in Loaded : flagged(c) # {}}
          IN  [c \in has |-> Decl(c)[CHOOSE i \in flagged(c) : \A j \in flagged(c) : i <= j].name]

MetaFlags == [c \in Loaded |-> [col \in ColumnSet(c) |-> _col_defs(c, col).primary_key]]

MetaColumns == [c \in Loaded |-> DeclOrder(c)]

\* the orders _col_defs.keys() can come in: dct and _col_defs are Python 2
\* dicts, which iterate in hash-table order, not in the order of the class body
KeyOrders(c) == {q \in [1..Len(Decl(c)) -> ColumnSet(c)] :
                    \A i, j \in 1..Len(Decl(c)) : q[i] = q[j] => i = j}

\* MetaGenericModel.__new__ for class c whose _col_defs.keys() is keys: the
\* class attributes columns and pk (<<>> when no column is flagged: the class
\* gets no pk of its own) and the column flags
MetaGenericModel__new__(c, keys) ==
    LET flagged == {i \in 1..Len(keys) : _col_defs(c, keys[i]).primary_key}
    IN  [columns |-> keys,
         pk |-> IF flagged = {} THEN <<>>
                ELSE <<keys[CHOOSE i \in flagged : \A j \in flagged : i <= j]>>,
         flags |-> [col \in ColumnSet(c) |-> _col_defs(c, col).primary_key]]

\* GenericModel.__init__(self, **kwargs) for class c: the exception raised
\* ("" when none), the new instance and the column flags afterwards
GenericModel__init__(pkOf, colsOf, flags, c, kwargs) ==
    LET selfpk == InstancePk(pkOf, c)
        obj == [cls |-> c, vals |-> [k \in (DOMAIN kwargs) \cap ColumnSet(c) |-> kwargs[k]]]
    IN  IF selfpk.exc # ""
        THEN [exc |-> selfpk.exc, obj |-> <<>>, flags |-> flags]
        ELSE IF selfpk.val.s = <<"">>
             THEN IF Len(colsOf[c]) = 1
                  THEN [exc |-> "", obj |-> <<obj>>,
                        flags |-> [flags EXCEPT ![c][colsOf[c][1]] = TRUE]]
                  ELSE [exc |-> "PKMissingException", obj |-> <<>>, flags |-> flags]
             ELSE [exc |-> "", obj |-> <<obj>>, flags |-> flags]

(***************************************************************************)
(* GenericSession                                                          *)
(***************************************************************************)

\* dict.get(key): None when the key is missing
StoreGet(st, key) == IF key \in DOMAIN st THEN [none |-> FALSE, list |-> st[key]]
                     ELSE [none |-> TRUE, list |-> <<>>]

\* dict assignment st[key] = value
StorePut(st, key, value) == [k \in (DOMAIN st) \cup {key} |-> IF k = key THEN value ELSE st[k]]

\* GenericSession._like
_like(item, col_name, value) ==
    LET a == getattr(item, col_name)
    IN  IF a.exc # "" THEN a ELSE Contains(a.val, value)

\* GenericSession._not_like
_not_like(item, col_name, value) ==
    LET a == getattr(item, col_name)
        r == Contains(a.val, value)
    IN  IF a.exc # "" THEN a ELSE IF r.exc # "" THEN r ELSE Ok(~r.val)

\* _equal that coerces the literal to the column's declared type
_equalDeclaredType(item, col_name, value) ==
    LET a == getattr(item, col_name)
        c == Call(get_col_type(item.cls, col_name), value)
    IN  IF a.exc # "" THEN a ELSE IF c.exc # "" THEN c ELSE Ok(PyEq(a.val, c.val))

\* GenericSession._equal
_equal(item, col_name, value) ==
    LET a == getattr(item, col_name)
        c == Call(a.val.t, value)
    IN  IF a.exc # "" THEN a ELSE IF c.exc # "" THEN c ELSE Ok(PyEq(a.val, c.val))

\* _not_equal that compares with the literal as it was passed
_not_equalRaw(item, col_name, value) ==
    LET a == getattr(item, col_name)
    IN  IF a.exc # "" THEN a ELSE Ok(~PyEq(a.val, value))

\* GenericSession._not_equal
_not_equal(item, col_name, value) ==
    LET a == getattr(item, col_name)
        c == Call(a.val.t, value)
    IN  IF a.exc # "" THEN a ELSE IF c.exc # "" THEN c ELSE Ok(~PyEq(a.val, c.val))

\* filter_cmd[0](item, filter_cmd[1], filter_cmd[2])
ApplyFilter(filter_cmd, item) ==
    CASE filter_cmd[1] = "_like" -> _like(item, filter_cmd[2], filter_cmd[3])
      [] filter_cmd[1] = "_not_like" -> _not_like(item, filter_cmd[2], filter_cmd[3])
      [] filter_cmd[1] = "_equal" -> _equal(item, filter_cmd[2], filter_cmd[3])
      [] filter_cmd[1] = "_not_equal" -> _not_equal(item, filter_cmd[2], filter_cmd[3])

\* FilterFlag that looks at one filter only
FilterFlagOneFilter(item, cmds, i) ==
    IF i > Len(cmds) THEN Ok(TRUE) ELSE ApplyFilter(cmds[i], item)

\* the inner loop of all(): tmp_flag for one item, stopping at the first
\* filter that fails; a filter that raises ends the call
RECURSIVE FilterFlag(_, _, _)
FilterFlag(item, cmds, i) ==
    IF i > Len(cmds) THEN Ok(TRUE)
    ELSE LET r == ApplyFilter(cmds[i], item)
         IN  IF r.exc # "" THEN r
             ELSE IF ~r.val THEN Ok(FALSE)
             ELSE FilterFlag(item, cmds, i + 1)

\* the outer loop of all(): items.append(item) for the items whose flag stays set
RECURSIVE FilterLoop(_, _, _, _)
FilterLoop(list, cmds, i, items) ==
    IF i > Len(list) THEN [exc |-> "", none |-> FALSE, list |-> items]
    ELSE LET f == FilterFlag(list[i], cmds, 1)
         IN  IF f.exc # "" THEN [exc |-> f.exc, none |-> FALSE, list |-> <<>>]
             ELSE FilterLoop(list, cmds, i + 1, IF f.val THEN Append(items, list[i]) ELSE items)

Reverse(s) == [i \in 1..Len(s) |-> s[Len(s) + 1 - i]]

\* list.sort by key, stable: each element goes after the elements not greater
RECURSIVE InsertSorted(_, _, _)
InsertSorted(sorted, x, col_name) ==
    IF sorted = <<>> THEN <<x>>
    ELSE IF PyLess(getattr(x, col_name).val, getattr(sorted[Len(sorted)], col_name).val)
         THEN Append(InsertSorted(SubSeq(sorted, 1, Len(sorted) - 1), x, col_name), sorted[Len(sorted)])
         ELSE Append(sorted, x)

RECURSIVE StableSort(_, _, _)
StableSort(data, i, col_name) ==
    IF i = 0 THEN <<>>
    ELSE InsertSorted(StableSort(data, i - 1, col_name), data[i], col_name)

\* sorted that reverses the ascending result when reverse is asked for
sortedThenReversed(data, col_name, reverse_flag) ==
    IF reverse_flag
    THEN Reverse(StableSort(data, Len(data), col_name))
    ELSE StableSort(data, Len(data), col_name)

\* sorted(data, key=operator.attrgetter(col_name), reverse=reverse_flag):
\* with reverse the list is reversed, sorted ascending and reversed again,
\* which keeps equal keys in their original order
sorted(data, col_name, reverse_flag) ==
    IF reverse_flag
    THEN Reverse(StableSort(Reverse(data), Len(data), col_name))
    ELSE StableSort(data, Len(data), col_name)

\* the list handed to a sort that works in place, as data.sort(...) would
dataSortedInPlace(data, col_name, reverse_flag) == sorted(data, col_name, reverse_flag)

\* the list handed to sorted(data, ...) once it returned: sorted builds a new
\* list and leaves data as it was
dataAfterSorted(data, col_name, reverse_flag) == data

\* GenericSession._order_by(data, order_cmd); order_cmd is given by its words,
\* so order_cmd.split() unpacks only when there are exactly two
_order_by(data, order_cmd) ==
    IF Len(order_cmd) # 2 THEN [exc |-> "ValueError", none |-> FALSE, list |-> <<>>]
    ELSE IF data.none THEN [exc |-> "TypeError", none |-> FALSE, list |-> <<>>]
    ELSE IF \E i \in 1..Len(data.list) : getattr(data.list[i], order_cmd[1]).exc # ""
         THEN [exc |-> "AttributeError", none |-> FALSE, list |-> <<>>]
         ELSE [exc |-> "", none |-> FALSE,
               list |-> sorted(data.list, order_cmd[1], order_cmd[2] = "desc")]

\* items[lo:hi] on a list
PySlice(items, lo, hi) ==
    LET n == Len(items)
        clamp(k) == IF k < 0 THEN (IF k + n < 0 THEN 0 ELSE k + n) ELSE (IF k > n THEN n ELSE k)
        a == clamp(lo)
        b == clamp(hi)
    IN  IF a < b THEN SubSeq(items, a + 1, b) ELSE <<>>

\* Paginate with the slice written items[offset:limit]
PaginateToLimit(items, off, lim) ==
    IF lim # 0 THEN PySlice(items, off, lim) ELSE items

\* if self._limit != 0: items = items[self._offset:self._offset + self._limit]
Paginate(items, off, lim) ==
    IF lim # 0 THEN PySlice(items, off, off + lim) ELSE items

AllResult(exc, count, items) == [op |-> "all", arg |-> NoneV, exc |-> exc, count |-> count, items |-> items]

\* GenericSession.all
all(self) ==
    LET got == StoreGet(self.store, self.query_class)
        filtered == IF self.filters_cmd = <<>>
                    THEN [exc |-> "", none |-> got.none, list |-> got.list]
                    ELSE IF got.none
                         THEN [exc |-> "TypeError", none |-> FALSE, list |-> <<>>]
                         ELSE FilterLoop(got.list, self.filters_cmd, 1, <<>>)
        ordered == IF filtered.exc # "" THEN filtered
                   ELSE IF self.order_by_cmd # <<>>
                        THEN _order_by(filtered, self.order_by_cmd)
                        ELSE filtered
    IN  IF ordered.exc # "" THEN AllResult(ordered.exc, 0, <<>>)
        ELSE IF ordered.none THEN AllResult("TypeError", 0, <<>>)
        ELSE AllResult("", Len(ordered.list), Paginate(ordered.list, self.offset, self.limit))

\* the store when all() is over: without filters items is the very list the
\* store holds, and it is that list which _order_by is given
storeAfterAll(self) ==
    LET got == StoreGet(self.store, self.query_class)
    IN  IF /\ self.filters_cmd = <<>>
           /\ ~got.none
           /\ self.order_by_cmd # <<>>
           /\ _order_by(got, self.order_by_cmd).exc = ""
        THEN StorePut(self.store, self.query_class,
                      dataAfterSorted(got.list, self.order_by_cmd[1], self.order_by_cmd[2] = "desc"))
        ELSE self.store

GetResult(pkv, exc, items) == [op |-> "get", arg |-> pkv, exc |-> exc, count |-> 0, items |-> items]

\* GetLoop that compares pk as it was passed, without the coercion
RECURSIVE GetLoopRawPk(_, _, _, _, _)
GetLoopRawPk(pkOf, list, i, pkv, arg) ==
    IF i > Len(list) THEN GetResult(arg, "", <<>>)
    ELSE IF PyEq(getattr(list[i], pkOf[list[i].cls]).val, pkv)
         THEN GetResult(arg, "", <<list[i]>>)
         ELSE GetLoopRawPk(pkOf, list, i + 1, pkv, arg)

\* the loop of get(): pk is coerced again for every item visited
RECURSIVE GetLoop(_, _, _, _, _)
GetLoop(pkOf, list, i, pkv, arg) ==
    IF i > Len(list) THEN GetResult(arg, "", <<>>)
    ELSE LET item == list[i]
             itempk == InstancePk(pkOf, item.cls)
             conv == Call(get_col_type(item.cls, itempk.val.s[1]), pkv)
         IN  IF itempk.exc # "" THEN GetResult(arg, itempk.exc, <<>>)
             ELSE IF itempk.val.s[1] \notin ColumnSet(item.cls) THEN GetResult(arg, "KeyError", <<>>)
             ELSE IF conv.exc # "" THEN GetResult(arg, conv.exc, <<>>)
             ELSE IF PyEq(getattr(item, itempk.val.s[1]).val, conv.val)
                  THEN GetResult(arg, "", <<item>>)
                  ELSE GetLoop(pkOf, list, i + 1, conv.val, arg)

\* get that looks only among the records the registered filters keep
getFiltered(self, pkv) ==
    LET got == StoreGet(self.store, self.query_class)
        kept == FilterLoop(got.list, self.filters_cmd, 1, <<>>)
    IN  IF got.none THEN GetResult(pkv, "TypeError", <<>>)
        ELSE IF kept.exc # "" THEN GetResult(pkv, kept.exc, <<>>)
        ELSE GetLoop(self.pk, kept.list, 1, pkv, pkv)

\* GenericSession.get
get(self, pkv) ==
    LET got == StoreGet(self.store, self.query_class)
    IN  IF got.none THEN GetResult(pkv, "TypeError", <<>>)
        ELSE GetLoop(self.pk, got.list, 1, pkv, pkv)

(***************************************************************************)
(* Inputs of the calls.                                                    *)
(***************************************************************************)
Kwargs(c) ==
    CASE c = "M" -> { [id |-> IntV(1), name |-> StrV(<<"b">>)],
                      [id |-> IntV(2), name |-> StrV(<<"b">>)],
                      [id |-> IntV(2), name |-> StrV(<<"a">>), bogus |-> IntV(1)] }
      [] c = "S" -> { [code |-> IntV(1)] }
      [] c = "N" -> { [a |-> IntV(1), b |-> StrV(<<"a">>)], [b |-> StrV(<<"b">>)], <<>> }
      [] c = "PSModel" -> { [PID |-> IntV(1), CMD |-> StrV(<<"a">>)],
                            [PID |-> IntV(1), CMD |-> StrV(<<"b">>)] }

LikeArgs == { <<"name", StrV(<<"a">>)>> }
NotLikeArgs == { <<"name", StrV(<<"a">>)>> }
EqualArgs == { <<"id", StrV(<<"2">>)>> }
NotEqualArgs == { <<"id", StrV(<<"a">>)>> }
OrderCmds == { <<"name", "asc">>, <<"name", "desc">>, <<"name">> }
PkArgs == { StrV(<<"2">>), StrV(<<"a">>) }

\* the instances a caller can hold: those whose construction returned
Instances(pkOf, colsOf, flags, cs) ==
    UNION { { r.obj[1] : r \in { x \in { GenericModel__init__(pkOf, colsOf, flags, c, kw) : kw \in Kwargs(c) } :
                                     x.exc = "" } } : c \in cs }

NoRet == [op |-> "none", arg |-> NoneV, exc |-> "", count |-> 0, items |-> <<>>]

Self == [pk |-> pk, store |-> store, query_class |-> query_class, filters_cmd |-> filters_cmd,
         order_by_cmd |-> order_by_cmd, offset |-> offset, limit |-> limit]

(***************************************************************************)
(* The state after the classes are declared and GenericSession() returns.  *)
(***************************************************************************)
Init ==
    /\ columns = MetaColumns
    /\ pk = MetaPk
    /\ primary_key = MetaFlags
    /\ store = <<>>
    /\ query_class = ""
    /\ filters_cmd = <<>>
    /\ order_by_cmd = <<>>
    /\ offset = 0
    /\ limit = 0
    /\ ret = NoRet

\* model = c(**kwargs)
Construct(c, kwargs) ==
    LET r == GenericModel__init__(pk, columns, primary_key, c, kwargs)
    IN  /\ primary_key' = r.flags
        /\ ret' = [op |-> "construct", arg |-> ClsV(c), exc |-> r.exc, count |-> 0, items |-> r.obj]
        /\ UNCHANGED <<columns, pk, store, builderVars>>

\* add that puts the record in front of the class's list
addFirst(st, model) ==
    LET cls_list == StoreGet(st, model.cls)
    IN  StorePut(st, model.cls, <<model>> \o cls_list.list)

\* GenericSession.add
add(st, model) ==
    LET model_cls_name == model.cls
        cls_list == StoreGet(st, model_cls_name)
        st1 == IF cls_list.none \/ cls_list.list = <<>> THEN StorePut(st, model_cls_name, <<>>) ELSE st
    IN  StorePut(st1, model_cls_name, Append(st1[model_cls_name], model))

Add(model) ==
    /\ Len(StoreGet(store, model.cls).list) < MaxStore
    /\ store' = add(store, model)
    /\ ret' = NoRet
    /\ UNCHANGED <<schemaVars, builderVars>>

\* GenericSession.clear
Clear ==
    /\ store' = <<>>
    /\ ret' = NoRet
    /\ UNCHANGED <<schemaVars, builderVars>>

\* delete_all that empties the list of every class
delete_allClasses(st, c) == [k \in (DOMAIN st) \cup {c} |-> <<>>]

\* GenericSession.delete_all
delete_all(st, c) == StorePut(st, c, <<>>)

DeleteAll(c) ==
    /\ store' = delete_all(store, c)
    /\ ret' = NoRet
    /\ UNCHANGED <<schemaVars, builderVars>>

\* query that leaves the registered filters in place
queryKeepsFilters(self, c) == [self EXCEPT !.order_by_cmd = <<>>, !.offset = 0, !.limit = 0,
                                           !.query_class = c]

\* GenericSession.query
query(self, c) == [self EXCEPT !.filters_cmd = <<>>, !.order_by_cmd = <<>>,
                               !.offset = 0, !.limit = 0, !.query_class = c]

SetBuilder(self) ==
    /\ query_class' = self.query_class
    /\ filters_cmd' = self.filters_cmd
    /\ order_by_cmd' = self.order_by_cmd
    /\ offset' = self.offset
    /\ limit' = self.limit

Query(c) ==
    /\ SetBuilder(query(Self, c))
    /\ ret' = [op |-> "query", arg |-> ClsV(c), exc |-> "", count |-> 0, items |-> <<>>]
    /\ UNCHANGED <<schemaVars, store>>

\* GenericSession.like / not_like / equal / not_equal.  The builder methods
\* are chained onto query(...), so they are taken once a class was queried.
AddFilter(fn, col_name, value) ==
    /\ query_class # ""
    /\ Len(filters_cmd) < MaxFilters
    /\ filters_cmd' = Append(filters_cmd, <<fn, col_name, value>>)
    /\ ret' = NoRet
    /\ UNCHANGED <<schemaVars, store, query_class, order_by_cmd, offset, limit>>

Like(col_name, value) == AddFilter("_like", col_name, value)
NotLike(col_name, value) == AddFilter("_not_like", col_name, value)
Equal(col_name, value) == AddFilter("_equal", col_name, value)
NotEqual(col_name, value) == AddFilter("_not_equal", col_name, value)

\* GenericSession.order_by
OrderBy(order_cmd) ==
    /\ query_class # ""
    /\ order_by_cmd' = order_cmd
    /\ ret' = NoRet
    /\ UNCHANGED <<schemaVars, store, query_class, filters_cmd, offset, limit>>

\* GenericSession.offset
Offset(n) ==
    /\ query_class # ""
    /\ offset' = n
    /\ ret' = NoRet
    /\ UNCHANGED <<schemaVars, store, query_class, filters_cmd, order_by_cmd, limit>>

\* GenericSession.limit
Limit(n) ==
    /\ query_class # ""
    /\ limit' = n
    /\ ret' = NoRet
    /\ UNCHANGED <<schemaVars, store, query_class, filters_cmd, order_by_cmd, offset>>

\* total_length, items = session.all()
All ==
    /\ ret' = all(Self)
    /\ store' = storeAfterAll(Self)
    /\ UNCHANGED <<schemaVars, builderVars>>

\* item = session.get(pk)
Get(pkv) ==
    /\ ret' = get(Self, pkv)
    /\ UNCHANGED <<schemaVars, store, builderVars>>

\* the session used on the one class M; offsets and limits are page bounds,
\* hence not negative
Next ==
    \/ \E model \in Instances(pk, columns, primary_key, {"M"}) : Add(model)
    \/ Clear
    \/ DeleteAll("M")
    \/ Query("M")
    \/ \E a \in LikeArgs : Like(a[1], a[2])
    \/ \E a \in NotLikeArgs : NotLike(a[1], a[2])
    \/ \E a \in EqualArgs : Equal(a[1], a[2])
    \/ \E a \in NotEqualArgs : NotEqual(a[1], a[2])
    \/ \E cmd \in OrderCmds : OrderBy(cmd)
    \/ \E n \in 0..MaxPage : Offset(n)
    \/ \E n \in 0..MaxPage : Limit(n)
    \/ All
    \/ \E pkv \in PkArgs : Get(pkv)

Spec == Init /\ [][Next]_vars

\* instances of every declared class are constructed, stored and looked up
NextModel ==
    \/ \E c \in Classes : \E kw \in Kwargs(c) : Construct(c, kw)
    \/ \E model \in Instances(pk, columns, primary_key, Classes) : Add(model)
    \/ Clear
    \/ \E c \in Classes : DeleteAll(c)
    \/ \E c \in Classes : Query(c)
    \/ All
    \/ \E pkv \in PkArgs : Get(pkv)

SpecModel == Init /\ [][NextModel]_vars

\* class c(GenericModel): ...  -- the class statement runs the metaclass
Declare(c, keys) ==
    LET obj == MetaGenericModel__new__(c, keys)
    IN  /\ c \notin DOMAIN columns
        /\ columns' = [k \in (DOMAIN columns) \cup {c} |-> IF k = c THEN obj.columns ELSE columns[k]]
        /\ pk' = IF obj.pk = <<>> THEN pk
                 ELSE [k \in (DOMAIN pk) \cup {c} |-> IF k = c THEN obj.pk[1] ELSE pk[k]]
        /\ primary_key' = [k \in (DOMAIN primary_key) \cup {c} |->
                               IF k = c THEN obj.flags ELSE primary_key[k]]
        /\ ret' = [op |-> "class", arg |-> ClsV(c), exc |-> "", count |-> 0, items |-> <<>>]
        /\ UNCHANGED <<store, builderVars>>

\* the module before any model class is declared
InitMeta ==
    /\ columns = <<>>
    /\ pk = <<>>
    /\ primary_key = <<>>
    /\ store = <<>>
    /\ query_class = ""
    /\ filters_cmd = <<>>
    /\ order_by_cmd = <<>>
    /\ offset = 0
    /\ limit = 0
    /\ ret = NoRet

\* the model classes are declared, in any order
NextMeta == \E c \in DeclaredClasses : \E keys \in KeyOrders(c) : Declare(c, keys)

SpecMeta == InitMeta /\ [][NextMeta]_vars

(***************************************************************************)
(* One predicate per query, over records whose fields hold values of       *)
(* either type: __init__ stores whatever the keyword arguments carry.      *)
(***************************************************************************)
FilterKwargs == { [id |-> IntV(2), name |-> StrV(<<"a", "b">>)],
                  [id |-> IntV(30), name |-> StrV(<<"b">>)],
                  [id |-> StrV(<<"2">>)] }

FilterModels == { GenericModel__init__(MetaPk, MetaColumns, MetaFlags, "M", kw).obj[1] : kw \in FilterKwargs }

FilterLikeArgs == { <<"name", StrV(<<"b">>)>>, <<"id", StrV(<<"2">>)>> }
FilterEqualArgs == { <<"id", StrV(<<"2">>)>>, <<"id", StrV(<<"3", "0">>)>>, <<"id", StrV(<<"a">>)>>,
                     <<"id", IntV(2)>>, <<"name", StrV(<<"b">>)>> }

NextFilter ==
    \/ \E model \in FilterModels : Add(model)
    \/ Clear
    \/ Query("M")
    \/ filters_cmd = <<>> /\ \E a \in FilterLikeArgs : Like(a[1], a[2])
    \/ filters_cmd = <<>> /\ \E a \in FilterLikeArgs : NotLike(a[1], a[2])
    \/ filters_cmd = <<>> /\ \E a \in FilterEqualArgs : Equal(a[1], a[2])
    \/ filters_cmd = <<>> /\ \E a \in FilterEqualArgs : NotEqual(a[1], a[2])
    \/ All

SpecFilter == Init /\ [][NextFilter]_vars

(***************************************************************************)
(* PSSession.  A line of the ps output is given by its eight columns, each *)
(* a sequence of characters; the blanks between the columns are left out.  *)
(***************************************************************************)
Letters == {"a", "b", "x", "t", "y", "p", "s", "U", "P", "C", "S", "T", "M"}

\* \w
IsWordChar(ch) == IsDigit(ch) \/ ch \in Letters

\* \w+
IsWord(s) == s # <<>> /\ \A i \in 1..Len(s) : IsWordChar(s[i])

\* \w+:\w+ (n = 2) and \w+:\w+:\w+ (n = 3)
IsColonWords(s, n) ==
    /\ s # <<>>
    /\ Cardinality({i \in 1..Len(s) : s[i] = ":"}) = n - 1
    /\ s[1] # ":" /\ s[Len(s)] # ":"
    /\ \A i \in 1..Len(s) - 1 : ~(s[i] = ":" /\ s[i + 1] = ":")
    /\ \A i \in 1..Len(s) : s[i] = ":" \/ IsWordChar(s[i])

\* \?|tty\w+
IsTty(s) == \/ s = <<"?">>
            \/ Len(s) > 3 /\ SubSeq(s, 1, 3) = <<"t", "t", "y">> /\ IsWord(SubSeq(s, 4, Len(s)))

\* re.findall(self.regexp, line): the groups of the match, if the line has one
findall(line) ==
    IF /\ IsWord(line[1]) /\ IsWord(line[2]) /\ IsWord(line[3]) /\ IsWord(line[4])
       /\ (IsColonWords(line[5], 2) \/ IsWord(line[5]))
       /\ IsTty(line[6])
       /\ IsColonWords(line[7], 3)
       /\ line[8] # <<>>
    THEN <<line>>
    ELSE <<>>

\* the record add_object assigns field by field, group being the match
PSModelFrom(group, PID, PPID, C) ==
    [cls |-> "PSModel",
     vals |-> [UID |-> StrV(group[1]), PID |-> PID, PPID |-> PPID, C |-> C,
               STIME |-> StrV(group[5]), TTY |-> StrV(group[6]),
               TIME |-> StrV(group[7]), CMD |-> StrV(group[8])]]

\* PSSession.add_object: the exception raised ("" when none) and the store
add_object(st, line) ==
    LET withGroup(group) ==
            LET PID == int(StrV(group[2]))
                PPID == int(StrV(group[3]))
                C == int(StrV(group[4]))
            IN  IF PID.exc # "" THEN [exc |-> PID.exc, store |-> st]
                ELSE IF PPID.exc # "" THEN [exc |-> PPID.exc, store |-> st]
                ELSE IF C.exc # "" THEN [exc |-> C.exc, store |-> st]
                ELSE [exc |-> "", store |-> add(st, PSModelFrom(group, PID.val, PPID.val, C.val))]
    IN  CHOOSE r \in { IF group = <<>> THEN [exc |-> "", store |-> st] ELSE withGroup(group[1]) :
                       group \in {findall(line)} } : TRUE

\* for line in out.readlines(): self.add_object(line); the loop stops at the
\* first line on which add_object raises
RECURSIVE ReadLines(_, _, _)
ReadLines(st, out, i) ==
    IF i > Len(out) THEN [exc |-> "", store |-> st]
    ELSE CHOOSE r \in { IF one.exc # "" THEN one ELSE ReadLines(one.store, out, i + 1) :
                        one \in {add_object(st, out[i])} } : TRUE

\* Rescan that reads the lines into the store as it is
RescanKeep(st, out) == ReadLines(st, out, 1)

\* self.delete_all(PSModel()) followed by the loop over the lines
Rescan(st, out) == ReadLines(delete_all(st, "PSModel"), out, 1)

\* PSSession.all, out being what ps -ef printed
PSSession_all(self, colsOf, flags, out) ==
    LET inst == GenericModel__init__(self.pk, colsOf, flags, "PSModel", <<>>)
    IN  IF inst.exc # "" THEN [store |-> self.store, ret |-> AllResult(inst.exc, 0, <<>>)]
        ELSE CHOOSE res \in { IF r.exc # ""
                              THEN [store |-> r.store, ret |-> AllResult(r.exc, 0, <<>>)]
                              ELSE [store |-> r.store, ret |-> all([self EXCEPT !.store = r.store])] :
                              r \in {Rescan(self.store, out)} } : TRUE

\* PSSession.get, out being what ps -p pk -f printed
PSSession_get(self, colsOf, flags, pkv, out) ==
    LET inst == GenericModel__init__(self.pk, colsOf, flags, "PSModel", <<>>)
    IN  IF inst.exc # "" THEN [store |-> self.store, ret |-> GetResult(pkv, inst.exc, <<>>)]
        ELSE CHOOSE res \in { IF r.exc # ""
                              THEN [store |-> r.store, ret |-> GetResult(pkv, r.exc, <<>>)]
                              ELSE [store |-> r.store, ret |-> get([self EXCEPT !.store = r.store], pkv)] :
                              r \in {Rescan(self.store, out)} } : TRUE

\* lines ps can print: a process without a terminal, one on a console, the
\* header, a process on a pseudo terminal, and a line in which the pattern
\* finds its groups with a PID column that is no number
PsLines ==
    { << <<"a">>, <<"1">>, <<"0">>, <<"0">>, <<"1", "0", ":", "0", "0">>, <<"?">>,
         <<"0", ":", "0", ":", "1">>, <<"x">> >>,
      << <<"a">>, <<"2">>, <<"1">>, <<"0">>, <<"b">>, <<"t", "t", "y", "1">>,
         <<"0", ":", "0", ":", "2">>, <<"x", " ", "a">> >>,
      << <<"U">>, <<"P">>, <<"P", "P">>, <<"C">>, <<"S">>, <<"T", "T", "Y">>, <<"T">>, <<"C", "M">> >>,
      << <<"a">>, <<"3">>, <<"1">>, <<"0">>, <<"b">>, <<"p", "t", "s", "/", "0">>,
         <<"0", ":", "0", ":", "3">>, <<"x">> >>,
      << <<"a">>, <<"b">>, <<"1">>, <<"0">>, <<"b">>, <<"?">>, <<"0", ":", "0", ":", "4">>, <<"x">> >> }

\* what one run of ps prints: no line comes twice
Scans == UNION { {out \in [1..n -> PsLines] : \A i, j \in 1..n : out[i] = out[j] => i = j} :
                 n \in 0..MaxScan }

\* the outcome of a PSSession call, with the ps output the call read
PSResult(op, r, out) == [op |-> op, arg |-> r.arg, exc |-> r.exc, count |-> r.count,
                         items |-> r.items, out |-> out]

PSAll(out) ==
    \E r \in {PSSession_all(Self, columns, primary_key, out)} :
        /\ store' = r.store
        /\ ret' = PSResult("PSSession.all", r.ret, out)
        /\ UNCHANGED <<schemaVars, builderVars>>

PSGet(pkv, out) ==
    \E r \in {PSSession_get(Self, columns, primary_key, pkv, out)} :
        /\ store' = r.store
        /\ ret' = PSResult("PSSession.get", r.ret, out)
        /\ UNCHANGED <<schemaVars, builderVars>>

PSEqualArgs == { <<"PID", StrV(<<"1">>)>> }

\* a PSSession that is queried for PSModel and M, refreshed and added to
NextPS ==
    \/ \E out \in Scans : PSAll(out)
    \/ \E pkv \in PkArgs : \E out \in Scans : PSGet(pkv, out)
    \/ \E model \in Instances(pk, columns, primary_key, {"PSModel"}) : Add(model)
    \/ \E c \in StoreClasses : Query(c)
    \/ filters_cmd = <<>> /\ \E a \in PSEqualArgs : Equal(a[1], a[2])

SpecPS == Init /\ [][NextPS]_vars

(***************************************************************************)
(* A session that is only added to and read: every way all() and get()     *)
(* end, returning or raising, with ordering and pagination in use.         *)
(***************************************************************************)
NextRead ==
    \/ \E model \in Instances(pk, columns, primary_key, {"M"}) : Add(model)
    \/ Query("M")
    \/ \E a \in NotEqualArgs : NotEqual(a[1], a[2])
    \/ \E cmd \in OrderCmds : OrderBy(cmd)
    \/ \E n \in 0..MaxPage : Offset(n)
    \/ \E n \in 0..MaxPage : Limit(n)
    \/ All
    \/ \E pkv \in PkArgs : Get(pkv)

SpecRead == Init /\ [][NextRead]_vars

(***************************************************************************)
(* One session holding records of two classes, with a builder in use.      *)
(***************************************************************************)
NextStore ==
    \/ \E model \in Instances(pk, columns, primary_key, StoreClasses) : Add(model)
    \/ Clear
    \/ \E c \in StoreClasses : DeleteAll(c)
    \/ \E c \in StoreClasses : Query(c)
    \/ \E a \in EqualArgs : Equal(a[1], a[2])
    \/ \E n \in 0..MaxPage : Limit(n)

SpecStore == Init /\ [][NextStore]_vars

(***************************************************************************)
(* Definitions the properties are stated with.  They say what a call is    *)
(* to return without following the loops of the code.                      *)
(***************************************************************************)

\* the store entry of the class being queried
Target == StoreGet(store, query_class)

\* the last call was op and it returned
Returned(op) == ret.op = op /\ ret.exc = ""

\* every registered predicate is true of item
Satisfies(item, cmds) ==
    \A i \in 1..Len(cmds) : LET r == ApplyFilter(cmds[i], item) IN r.exc = "" /\ r.val

\* the records of list that satisfy every predicate, in the order of list
Matching(list, cmds) == LET keep(item) == Satisfies(item, cmds) IN SelectSeq(list, keep)

Perms(n) == {p \in [1..n -> 1..n] : \A i, j \in 1..n : p[i] = p[j] => i = j}

\* list rearranged by the field's value in the direction asked for, records
\* of equal value kept in the order of list
StableOrder(list, col_name, desc) ==
    LET key(i) == getattr(list[i], col_name).val
        before(a, b) == IF desc THEN PyLess(key(b), key(a)) ELSE PyLess(key(a), key(b))
        p == CHOOSE q \in Perms(Len(list)) :
                 \A i, j \in 1..Len(list) :
                     i < j => /\ ~before(q[j], q[i])
                              /\ (~before(q[i], q[j]) => q[i] < q[j])
    IN  [i \in 1..Len(list) |-> list[p[i]]]

\* the matching records in the order all() is to produce before it paginates
Expected ==
    LET m == Matching(Target.list, filters_cmd)
    IN  IF order_by_cmd = <<>> THEN m
        ELSE StableOrder(m, order_by_cmd[1], order_by_cmd[2] = "desc")

\* positions [off, off+lim) of list, counted from 0
Page(list, off, lim) ==
    LET last == IF off + lim < Len(list) THEN off + lim ELSE Len(list)
    IN  [i \in 1..(IF last > off THEN last - off ELSE 0) |-> list[off + i]]

\* the value of the primary-key column of item
PkValue(item) == getattr(item, pk[item.cls]).val

(***************************************************************************)
(* C1: whenever the queried schema has no records in the store (never      *)
(* added, cleared or delete_all'ed), all() returns (0, []) and get(pk)     *)
(* returns absent; neither raises.                                         *)
(***************************************************************************)
C1_EmptySchemaNeverRaises ==
    (ret.op \in {"all", "get"} /\ query_class \in Classes /\ Target.list = <<>>)
        => (ret.exc = "" /\ ret.count = 0 /\ ret.items = <<>>)

(***************************************************************************)
(* C2: with limit 0, all() returns the matching records from position      *)
(* offset onward and total_count is the full number of matching records.   *)
(***************************************************************************)
C2_LimitZeroKeepsOffset ==
    (Returned("all") /\ limit = 0)
        => (/\ ret.count = Len(Expected)
            /\ ret.items = Page(Expected, offset, Len(Expected)))

(***************************************************************************)
(* C3: the total_count all() returns is the number of records of the       *)
(* target schema satisfying all filters, whatever offset and limit are;    *)
(* with limit != 0 the records returned are exactly positions              *)
(* [offset, offset+limit) of the filtered, then ordered, sequence.         *)
(***************************************************************************)
C3_TotalCountAndPage ==
    Returned("all")
        => (/\ ret.count = Len(Matching(Target.list, filters_cmd))
            /\ limit # 0 => (/\ ret.items = Page(Expected, offset, limit)
                             /\ Len(ret.items) <= limit
                             /\ offset >= ret.count => ret.items = <<>>))

C3_Witness ==
    /\ Returned("all")
    /\ filters_cmd # <<>> /\ order_by_cmd # <<>> /\ offset # 0 /\ limit # 0
    /\ ret.items # <<>>
    /\ Len(ret.items) < ret.count

(***************************************************************************)
(* C4: filters combine with AND: all() returns exactly the records of the  *)
(* target schema for which every registered predicate is true, in store    *)
(* order when no order_by is set; with no filter, every record.            *)
(***************************************************************************)
C4_FiltersAnd ==
    Returned("all")
        => (/\ \A i \in 1..Len(ret.items) : Satisfies(ret.items[i], filters_cmd)
            /\ (order_by_cmd = <<>> /\ limit = 0)
                   => ret.items = Matching(Target.list, filters_cmd)
            /\ (filters_cmd = <<>> /\ order_by_cmd = <<>> /\ limit = 0)
                   => ret.items = Target.list)

C4_Witness ==
    /\ Returned("all")
    /\ Len(filters_cmd) = 2 /\ order_by_cmd = <<>> /\ limit = 0
    /\ ret.items # <<>>
    /\ \E i \in 1..Len(Target.list) :
           /\ Satisfies(Target.list[i], <<filters_cmd[1]>>)
           /\ ~Satisfies(Target.list[i], <<filters_cmd[2]>>)

C6_GetIgnoresBuilder ==
    ret.op = "get" => ret = get(query(Self, query_class), ret.arg)

C6_Witness ==
    /\ Returned("get")
    /\ ret.items # <<>>
    /\ filters_cmd # <<>> /\ ~Satisfies(ret.items[1], filters_cmd)
    /\ order_by_cmd # <<>> /\ offset # 0 /\ limit # 0

(***************************************************************************)
(* C7: get(pk) coerces pk to the declared type of the primary-key column   *)
(* and returns the first record, in insertion order, whose primary-key     *)
(* value equals the coerced pk; absent when no record matches.             *)
(***************************************************************************)
C7_GetFirstMatch ==
    Returned("get")
        => LET list == Target.list
               conv == Call(get_col_type(query_class, pk[query_class]), ret.arg)
               hits == {i \in 1..Len(list) : conv.exc = "" /\ PyEq(PkValue(list[i]), conv.val)}
           IN  IF hits = {} THEN ret.items = <<>>
               ELSE ret.items = <<list[CHOOSE i \in hits : \A j \in hits : i <= j]>>

C7_Witness ==
    /\ Returned("get")
    /\ Len(Target.list) = 2
    /\ Target.list[1] # Target.list[2]
    /\ PkValue(Target.list[1]) = PkValue(Target.list[2])
    /\ ret.arg.t = "str"
    /\ ret.items = <<Target.list[1]>>

(***************************************************************************)
(* C8: ordering is stable and applied after filtering and before           *)
(* pagination: for asc and desc alike all() returns the filtered records   *)
(* sorted by the field in the direction asked for, records of equal value  *)
(* in their store order.                                                   *)
(***************************************************************************)
C8_StableOrder ==
    (Returned("all") /\ order_by_cmd # <<>>)
        => LET sortedm == StableOrder(Matching(Target.list, filters_cmd),
                                      order_by_cmd[1], order_by_cmd[2] = "desc")
           IN  ret.items = IF limit = 0 THEN sortedm ELSE Page(sortedm, offset, limit)

C8_Witness ==
    /\ Returned("all")
    /\ order_by_cmd = <<"name", "desc">> /\ limit = 0
    /\ Len(ret.items) = 2
    /\ ret.items[1] # ret.items[2]
    /\ ret.items[1].vals["name"] = ret.items[2].vals["name"]
    /\ ret.items = Target.list

(***************************************************************************)
(* C9: an order_by command that names only the field sorts ascending,      *)
(* exactly like '<field> asc': all() completes with the same result.       *)
(***************************************************************************)
C9_NoDirectionIsAscending ==
    (ret.op = "all" /\ Len(order_by_cmd) = 1)
        => LET asc == all([Self EXCEPT !.order_by_cmd = <<order_by_cmd[1], "asc">>])
           IN  asc.exc = "" => ret = asc

(***************************************************************************)
(* C10: constructing a record of a class with exactly one column and no    *)
(* declared primary key succeeds, and from then on instances report that   *)
(* column as the primary key.                                              *)
(***************************************************************************)
C10_SingleColumnPromotion ==
    (/\ ret.op = "construct"
     /\ Len(columns[ret.arg.s[1]]) = 1
     /\ \A col \in ColumnSet(ret.arg.s[1]) : ~_col_defs(ret.arg.s[1], col).primary_key)
        => (/\ ret.exc = ""
            /\ InstancePk(pk, ret.arg.s[1]) = Ok(StrV(<<columns[ret.arg.s[1]][1]>>)))

(***************************************************************************)
(* C11: for a class with two or more columns and none flagged primary key, *)
(* every construction fails with PKMissingException, before any field is   *)
(* set and leaving the schema and the store unchanged.                     *)
(***************************************************************************)
C11_NoPkRaisesPKMissing ==
    (/\ ret.op = "construct"
     /\ Len(columns[ret.arg.s[1]]) >= 2
     /\ \A col \in ColumnSet(ret.arg.s[1]) : ~_col_defs(ret.arg.s[1], col).primary_key)
        => (/\ ret.exc = "PKMissingException"
            /\ ret.items = <<>>
            /\ primary_key = MetaFlags)

(***************************************************************************)
(* C12: for every model class the columns are the declared GenericColumn   *)
(* fields in declaration order, and the primary key is the first field, in *)
(* declaration order, flagged primary_key (the earliest declared wins).    *)
(***************************************************************************)
C12_DeclarationOrder ==
    \A c \in DOMAIN columns :
        LET flagged == {i \in 1..Len(Decl(c)) : Decl(c)[i].primary_key}
        IN  /\ columns[c] = DeclOrder(c)
            /\ flagged # {} =>
                   /\ c \in DOMAIN pk
                   /\ pk[c] = Decl(c)[CHOOSE i \in flagged : \A j \in flagged : i <= j].name

\* all() was called on a stored class with the one predicate fn registered
OnePredicate(fn) ==
    /\ ret.op = "all"
    /\ ~Target.none
    /\ Len(filters_cmd) = 1
    /\ filters_cmd[1][1] = fn
    /\ order_by_cmd = <<>>
    /\ limit = 0

\* the value the record holds in the field (the column object when it was never set)
StoredValue(item, col_name) == getattr(item, col_name).val

\* the literal converted to the runtime type of the record's stored value
Coerced(item, col_name, literal) == Call(StoredValue(item, col_name).t, literal)

(***************************************************************************)
(* C13: equal(field, literal) matches a record iff its stored value equals *)
(* the literal coerced to the runtime type of that stored value, not to    *)
(* the column's declared type (id = 30 matches equal('id', '30')); when    *)
(* the literal cannot be coerced to the type of a stored value, all()      *)
(* raises the conversion error instead of returning.                       *)
(***************************************************************************)
C13_EqualCoercesToStoredType ==
    OnePredicate("_equal") =>
        LET f == filters_cmd[1][2]
            v == filters_cmd[1][3]
            matches(item) == Coerced(item, f, v).val = StoredValue(item, f)
        IN  IF \E i \in 1..Len(Target.list) : Coerced(Target.list[i], f, v).exc # ""
            THEN ret.exc = "ValueError"
            ELSE /\ ret.exc = ""
                 /\ ret.items = SelectSeq(Target.list, matches)
                 /\ ret.count = Len(ret.items)

\* equal('id', '30') returned the record whose id is the integer 30 and left
\* out another one
C13_Witness ==
    /\ OnePredicate("_equal")
    /\ ret.exc = ""
    /\ filters_cmd[1][3] = StrV(<<"3", "0">>)
    /\ \E i \in 1..Len(ret.items) : StoredValue(ret.items[i], "id") = IntV(30)
    /\ Len(ret.items) < Len(Target.list)

\* the records the set holds, whatever their order
Range(seq) == {seq[i] : i \in 1..Len(seq)}

(***************************************************************************)
(* C14: like(field, substr) is true of a record iff substr occurs in the   *)
(* string rendering of the field's value, for fields of every type: an     *)
(* integer value is rendered as a string first, and the call never raises  *)
(* because of the field's type.                                            *)
(***************************************************************************)
C14_LikeRendersValue ==
    (/\ OnePredicate("_like")
     /\ \A i \in 1..Len(Target.list) : StoredValue(Target.list[i], filters_cmd[1][2]).t \in {"int", "str"})
        => LET f == filters_cmd[1][2]
               v == filters_cmd[1][3]
               occurs(item) == Contains(str(StoredValue(item, f)).val, v).val
           IN  /\ ret.exc = ""
               /\ ret.items = SelectSeq(Target.list, occurs)

\* what all() returns from the same store and builder with the one predicate fn
WithPredicate(fn) == all([Self EXCEPT !.filters_cmd = << <<fn, filters_cmd[1][2], filters_cmd[1][3]>> >>])

\* the records outside the result other make up the result, in store order
ComplementOf(other) ==
    LET out(item) == item \notin Range(other.items)
    IN  /\ ret.items = SelectSeq(Target.list, out)
        /\ Range(ret.items) \cap Range(other.items) = {}
        /\ ret.count + other.count = Len(Target.list)

RecordsOf(st, c) == StoreGet(st, c).list

\* the records a caller can have built of the two classes
StoreModels == Instances(MetaPk, MetaColumns, MetaFlags, StoreClasses)

\* the value of the record's primary-key field
PkOf(item) == StoredValue(item, pk[item.cls])

(***************************************************************************)
(* C16: add(record) puts the record at the end of the sequence of its own  *)
(* schema, creating the sequence on first use and after delete_all, with   *)
(* the earlier records kept in their order; it checks no primary key (a    *)
(* record whose key is already present becomes a second entry); the        *)
(* sequences of the other schemas and the builder are unchanged; every     *)
(* record stored under a schema name belongs to that schema.               *)
(***************************************************************************)
C16_AddAppends ==
    [][\A model \in StoreModels :
           Add(model) =>
               /\ model.cls \in DOMAIN store'
               /\ store'[model.cls] = Append(RecordsOf(store, model.cls), model)
               /\ \A c \in Loaded \ {model.cls} :
                      /\ c \in DOMAIN store' <=> c \in DOMAIN store
                      /\ RecordsOf(store', c) = RecordsOf(store, c)
               /\ UNCHANGED builderVars
               /\ \A c \in DOMAIN store' : \A i \in 1..Len(store'[c]) : store'[c][i].cls = c]_vars

\* two records with the same primary key are stored for M, the second added
\* after the first, while PSModel has records of its own and the builder is set
C16_Witness ==
    /\ Len(RecordsOf(store, "M")) = 2
    /\ PkOf(store["M"][1]) = PkOf(store["M"][2])
    /\ store["M"][1] # store["M"][2]
    /\ RecordsOf(store, "PSModel") # <<>>
    /\ filters_cmd # <<>>

(***************************************************************************)
(* C17: delete_all(schema) removes every record of that schema and nothing *)
(* else: the sequences of the other schemas keep their records and order   *)
(* and the builder (target, filters, order_by, offset, limit) is           *)
(* unchanged; clear() removes the records of every schema and leaves the   *)
(* builder unchanged.                                                      *)
(***************************************************************************)
C17_DeleteAllAndClear ==
    [][/\ \A c \in StoreClasses :
              DeleteAll(c) =>
                  /\ RecordsOf(store', c) = <<>>
                  /\ \A k \in Loaded \ {c} :
                         /\ k \in DOMAIN store' <=> k \in DOMAIN store
                         /\ RecordsOf(store', k) = RecordsOf(store, k)
                  /\ UNCHANGED builderVars
       /\ Clear =>
              /\ \A k \in Loaded : RecordsOf(store', k) = <<>>
              /\ UNCHANGED builderVars]_vars

\* the records of M were deleted while PSModel kept its two and the builder
\* its target, filter and limit
C17_Witness ==
    /\ "M" \in DOMAIN store
    /\ store["M"] = <<>>
    /\ Len(RecordsOf(store, "PSModel")) = 2
    /\ query_class = "M"
    /\ filters_cmd # <<>>
    /\ limit # 0

\* the line has the shape of a process line that the session reads
IsProcessLine(line) == findall(line) # <<>>

\* the three numeric columns of the line are numbers
HasNumbers(line) == \A k \in 2..4 : \A i \in 1..Len(line[k]) : IsDigit(line[k][i])

\* the lines of the scan read before one whose numbers do not convert
Readable(out) ==
    LET bad == {i \in 1..Len(out) : IsProcessLine(out[i]) /\ ~HasNumbers(out[i])}
    IN  IF bad = {} THEN out
        ELSE SubSeq(out, 1, (CHOOSE i \in bad : \A j \in bad : i <= j) - 1)

\* the record a process line stands for
RecordOf(line) ==
    [cls |-> "PSModel",
     vals |-> [UID |-> StrV(line[1]), PID |-> IntV(ParseInt(line[2])), PPID |-> IntV(ParseInt(line[3])),
               C |-> IntV(ParseInt(line[4])), STIME |-> StrV(line[5]), TTY |-> StrV(line[6]),
               TIME |-> StrV(line[7]), CMD |-> StrV(line[8])]]

\* the records of the scan, in scan order
Fresh(out) ==
    LET lines == SelectSeq(Readable(out), IsProcessLine)
    IN  [i \in 1..Len(lines) |-> RecordOf(lines[i])]

\* the first record of list whose PID is n, as get returns it
FirstWithPid(list, n) ==
    LET hits == {i \in 1..Len(list) : list[i].vals.PID = IntV(n)}
    IN  IF hits = {} THEN <<>> ELSE <<list[CHOOSE i \in hits : \A j \in hits : i <= j]>>

(***************************************************************************)
(* C18: after every all() or get() of PSSession the store's sequence for   *)
(* PSModel holds exactly the records parsed from that call's scan, in scan *)
(* order; records of earlier scans or earlier adds do not survive; the     *)
(* value returned is what the base all() / get() gives over exactly that   *)
(* sequence.  A scan with a line whose numbers do not convert ends the     *)
(* call with the conversion error, the records read before it stored.      *)
(***************************************************************************)
C18_RescanAndReplace ==
    ret.op \in {"PSSession.all", "PSSession.get"} =>
        /\ "PSModel" \in DOMAIN store
        /\ store["PSModel"] = Fresh(ret.out)
        /\ Readable(ret.out) # ret.out => ret.exc = "ValueError"
        /\ (Readable(ret.out) = ret.out /\ ret.op = "PSSession.all") =>
               /\ ret = PSResult(ret.op, all(Self), ret.out)
               /\ (query_class = "PSModel" /\ filters_cmd = <<>>) =>
                      ret.exc = "" /\ ret.items = Fresh(ret.out) /\ ret.count = Len(Fresh(ret.out))
        /\ (Readable(ret.out) = ret.out /\ ret.op = "PSSession.get") =>
               /\ ret = PSResult(ret.op, get(Self, ret.arg), ret.out)
               /\ (query_class = "PSModel" /\ int(ret.arg).exc = "") =>
                      ret.exc = "" /\ ret.items = FirstWithPid(Fresh(ret.out), int(ret.arg).val.n)

\* all() returned the two records of a scan of two process lines in scan
\* order, and they are all that PSModel holds
C18_Witness ==
    /\ ret.op = "PSSession.all" /\ ret.exc = ""
    /\ query_class = "PSModel"
    /\ Len(ret.out) = 2
    /\ Len(ret.items) = 2
    /\ ret.items = store["PSModel"]
    /\ ret.items[1].vals.PID = IntV(2)
    /\ ret.items[2].vals.PID = IntV(1)

(***************************************************************************)
(* C19: all() and get() are read-only, whether they return or raise: they  *)
(* change neither the store's contents, nor the order of any schema's      *)
(* sequence (ordering and pagination work on copies), nor the builder; so  *)
(* an all() that directly follows an all() returns the same total_count    *)
(* and the same records.                                                   *)
(***************************************************************************)
C19_ReadOnly ==
    [][ret'.op \in {"all", "get"} =>
           /\ store' = store
           /\ UNCHANGED builderVars
           /\ (ret.op = "all" /\ ret'.op = "all") => ret' = ret]_vars

\* all() returned the records of an unfiltered query in an order that is
\* not the order the store holds them in
C19_Witness ==
    /\ Returned("all")
    /\ filters_cmd = <<>>
    /\ order_by_cmd # <<>>
    /\ limit = 0
    /\ Len(ret.items) = 2
    /\ ret.items # Target.list

====
